---- MODULE Spec2Model ----
(***************************************************************************)
(* A model of pyrees.py: the trapezoid conversion curve, the style         *)
(* analysis built on it, and the command-line script around both.          *)
(*                                                                         *)
(* Numbers are exact rationals <<numerator, denominator>> in lowest terms  *)
(* with a positive denominator; Python's "/" is modelled as exact          *)
(* division, and a division by zero yields the value ZeroDivisionError,    *)
(* which every later operation propagates (the exception unwinding the     *)
(* expression).  Floating-point rounding is outside the model.             *)
(*                                                                         *)
(* tokenize.tokenize and ast.parse are the Python standard library: they   *)
(* are modelled by their interface (a token stream that may raise at any   *)
(* point, a function-definition count or an exception).                    *)
(***************************************************************************)
EXTENDS Integers, Sequences, FiniteSets, TLC

VARIABLES
    pc,             \* position of the running program
    argv,           \* sys.argv of the script
    fs,             \* the file named on the command line
    code,           \* analyze_style: the source text, a sequence of characters
    lines,          \* analyze_style: code.splitlines()
    gen,            \* the tokenize.tokenize generator while list() drains it:
                    \*   the tokens it has yielded and those it has yet to yield
    tokens,         \* analyze_style: tokens
    comment_lines,  \* analyze_style: comment_lines
    tokenize_raised,\* whether the except clause of lines 79-80 ran
    num_funcs,      \* analyze_style: num_funcs
    parse_raised,   \* whether the except clause of lines 105-106 ran
    outcome,        \* how the call of analyze_style ended: "none", "returned", "raised"
    result,         \* the dictionary analyze_style returned
    stdout,         \* what the script printed
    exit_status,    \* the script's exit status, -1 while it runs
    conv_value,     \* conversion: measure_value
    conv_params,    \* conversion: params
    conv_out        \* conversion: the branch taken and the value returned

vars == <<pc, argv, fs, code, lines, gen, tokens, comment_lines, tokenize_raised,
          num_funcs, parse_raised, outcome, result, stdout, exit_status,
          conv_value, conv_params, conv_out>>

-----------------------------------------------------------------------------
(* Bounds of the model *)

MaxLines == 4
MaxBreak == 3
MaxMark == 2
ValueDen == 2

-----------------------------------------------------------------------------
(* Arithmetic *)

Abs(n) == IF n < 0 THEN -n ELSE n

RECURSIVE GCD(_, _)
GCD(a, b) == IF b = 0 THEN a ELSE GCD(b, a % b)

ZeroDivisionError == <<0, 0>>

IsNumber(r) == r[2] # 0

Rat(n, d) ==
    IF d = 0 THEN ZeroDivisionError
    ELSE LET s == IF d < 0 THEN -1 ELSE 1
             g == GCD(Abs(n), Abs(d))
         IN  <<(s * n) \div g, (s * d) \div g>>

Num(n) == <<n, 1>>

Add(a, b) ==
    IF IsNumber(a) /\ IsNumber(b)
    THEN Rat(a[1] * b[2] + b[1] * a[2], a[2] * b[2])
    ELSE ZeroDivisionError

Sub(a, b) ==
    IF IsNumber(a) /\ IsNumber(b)
    THEN Rat(a[1] * b[2] - b[1] * a[2], a[2] * b[2])
    ELSE ZeroDivisionError

Mul(a, b) ==
    IF IsNumber(a) /\ IsNumber(b)
    THEN Rat(a[1] * b[1], a[2] * b[2])
    ELSE ZeroDivisionError

Div(a, b) ==
    IF IsNumber(a) /\ IsNumber(b)
    THEN Rat(a[1] * b[2], a[2] * b[1])
    ELSE ZeroDivisionError

Lt(a, b) == a[1] * b[2] < b[1] * a[2]

Le(a, b) == a[1] * b[2] <= b[1] * a[2]

-----------------------------------------------------------------------------
(* conversion(measure_value, params) *)

max_mark(params) == params[1]
lo(params) == params[2]
lotol(params) == params[3]
hitol(params) == params[4]
hi(params) == params[5]

(* The rising ramp written without its parentheses: max_mark * (v - lo) / lotol - lo *)
RisingRamp_no_parentheses(measure_value, params) ==
    Sub(Div(Mul(Num(max_mark(params)), Sub(measure_value, Num(lo(params)))),
            Num(lotol(params))),
        Num(lo(params)))

RisingRamp(measure_value, params) ==
    Div(Mul(Num(max_mark(params)), Sub(measure_value, Num(lo(params)))),
        Num(lotol(params) - lo(params)))

(* The falling ramp divided by the whole width hi - lo *)
FallingRamp_whole_width(measure_value, params) ==
    Div(Mul(Num(max_mark(params)), Sub(Num(hi(params)), measure_value)),
        Num(hi(params) - lo(params)))

FallingRamp(measure_value, params) ==
    Div(Mul(Num(max_mark(params)), Sub(Num(hi(params)), measure_value)),
        Num(hi(params) - hitol(params)))

(* The plateau tested with strict comparisons *)
conversion_strict_plateau(measure_value, params) ==
    IF Lt(measure_value, Num(lo(params))) \/ Lt(Num(hi(params)), measure_value)
    THEN [branch |-> "outside", mark |-> Num(0)]
    ELSE IF Lt(Num(lotol(params)), measure_value) /\ Lt(measure_value, Num(hitol(params)))
    THEN [branch |-> "plateau", mark |-> Num(max_mark(params))]
    ELSE IF Le(Num(lo(params)), measure_value) /\ Lt(measure_value, Num(lotol(params)))
    THEN [branch |-> "rising", mark |-> RisingRamp(measure_value, params)]
    ELSE IF Lt(Num(hitol(params)), measure_value) /\ Le(measure_value, Num(hi(params)))
    THEN [branch |-> "falling", mark |-> FallingRamp(measure_value, params)]
    ELSE [branch |-> "fallback", mark |-> Num(0)]

(* The curve without its clamp to zero outside lo .. hi *)
conversion_unclamped(measure_value, params) ==
    IF Le(Num(lotol(params)), measure_value) /\ Le(measure_value, Num(hitol(params)))
    THEN [branch |-> "plateau", mark |-> Num(max_mark(params))]
    ELSE IF Lt(measure_value, Num(lotol(params)))
    THEN [branch |-> "rising", mark |-> RisingRamp(measure_value, params)]
    ELSE [branch |-> "falling", mark |-> FallingRamp(measure_value, params)]

(* The ramps tested before the plateau, with both ends included *)
conversion_ramps_first(measure_value, params) ==
    IF Lt(measure_value, Num(lo(params))) \/ Lt(Num(hi(params)), measure_value)
    THEN [branch |-> "outside", mark |-> Num(0)]
    ELSE IF Le(Num(lo(params)), measure_value) /\ Le(measure_value, Num(lotol(params)))
    THEN [branch |-> "rising", mark |-> RisingRamp(measure_value, params)]
    ELSE IF Le(Num(hitol(params)), measure_value) /\ Le(measure_value, Num(hi(params)))
    THEN [branch |-> "falling", mark |-> FallingRamp(measure_value, params)]
    ELSE IF Le(Num(lotol(params)), measure_value) /\ Le(measure_value, Num(hitol(params)))
    THEN [branch |-> "plateau", mark |-> Num(max_mark(params))]
    ELSE [branch |-> "fallback", mark |-> Num(0)]

conversion(measure_value, params) ==
    IF Lt(measure_value, Num(lo(params))) \/ Lt(Num(hi(params)), measure_value)
    THEN [branch |-> "outside", mark |-> Num(0)]
    ELSE IF Le(Num(lotol(params)), measure_value) /\ Le(measure_value, Num(hitol(params)))
    THEN [branch |-> "plateau", mark |-> Num(max_mark(params))]
    ELSE IF Le(Num(lo(params)), measure_value) /\ Lt(measure_value, Num(lotol(params)))
    THEN [branch |-> "rising", mark |-> RisingRamp(measure_value, params)]
    ELSE IF Lt(Num(hitol(params)), measure_value) /\ Le(measure_value, Num(hi(params)))
    THEN [branch |-> "falling", mark |-> FallingRamp(measure_value, params)]
    ELSE [branch |-> "fallback", mark |-> Num(0)]

(* The conversion parameters of analyze_style, p1 .. p8 *)
MeasureNames ==
    <<"avg_line_length", "comment_percentage", "indent_percentage",
      "blank_percentage", "embedded_space_percentage", "module_length",
      "reserved_words_count", "avg_identifier_length">>

p1 == <<15, 40, 50, 70, 90>>
p2 == <<10, 5, 10, 20, 30>>
p3 == <<12, 30, 40, 60, 70>>
p4 == <<5, 2, 5, 10, 15>>
p5 == <<8, 5, 7, 12, 15>>
p6 == <<20, 5, 10, 20, 30>>
p7 == <<10, 5, 8, 15, 20>>
p8 == <<20, 5, 7, 15, 20>>

ParamTable == <<p1, p2, p3, p4, p5, p6, p7, p8>>

-----------------------------------------------------------------------------
(* Text: characters, str.strip, str.count, str.startswith, str.splitlines *)

Whitespace == {" ", "\t", "\n"}

RECURSIVE lstrip(_)
lstrip(line) ==
    IF line # <<>> /\ Head(line) \in Whitespace THEN lstrip(Tail(line)) ELSE line

RECURSIVE rstrip(_)
rstrip(line) ==
    IF line # <<>> /\ line[Len(line)] \in Whitespace
    THEN rstrip(SubSeq(line, 1, Len(line) - 1))
    ELSE line

strip(line) == rstrip(lstrip(line))

count(line, ch) == Cardinality({i \in 1..Len(line) : line[i] = ch})

startswith(line, ch) == line # <<>> /\ Head(line) = ch

RECURSIVE splitlines(_)
splitlines(text) ==
    IF text = <<>> THEN <<>>
    ELSE LET breaks == {i \in 1..Len(text) : text[i] = "\n"}
         IN  IF breaks = {} THEN <<text>>
             ELSE LET i == CHOOSE j \in breaks : \A k \in breaks : j <= k
                  IN  <<SubSeq(text, 1, i - 1)>> \o splitlines(SubSeq(text, i + 1, Len(text)))

RECURSIVE SumSeq(_)
SumSeq(ns) == IF ns = <<>> THEN 0 ELSE Head(ns) + SumSeq(Tail(ns))

-----------------------------------------------------------------------------
(* tokenize.tokenize and ast.parse of the standard library, as far as
   analyze_style reads their results: the text is read line by line (over
   this alphabet the lines are those of splitlines); a comment runs from "#"
   to the end of its line, a name is a maximal run of letters, every line
   ends with a NEWLINE or NL token, and the stream starts with ENCODING and
   ends with ENDMARKER.  The tokens of other types (operators, INDENT,
   DEDENT), which analyze_style skips, are left out.  A tree has one
   function definition for every "def" of the text. *)

Letters == {"d", "e", "f", "i", "x"}

RECURSIVE Str(_)
Str(chars) == IF chars = <<>> THEN "" ELSE Head(chars) \o Str(Tail(chars))

RECURSIVE RunEnd(_, _)
RunEnd(line, col) ==
    IF col < Len(line) /\ line[col + 1] \in Letters THEN RunEnd(line, col + 1) ELSE col

RECURSIVE Scan(_, _, _)
Scan(line, col, row) ==
    IF col > Len(line) THEN <<>>
    ELSE IF line[col] = "#"
    THEN <<[type |-> "COMMENT", string |-> Str(SubSeq(line, col, Len(line))), start |-> row]>>
    ELSE IF line[col] \in Letters
    THEN <<[type |-> "NAME", string |-> Str(SubSeq(line, col, RunEnd(line, col))),
            start |-> row]>> \o Scan(line, RunEnd(line, col) + 1, row)
    ELSE Scan(line, col + 1, row)

LexLine(line, row) ==
    LET toks == Scan(line, 1, row)
    IN  toks \o <<[type |-> IF \E i \in 1..Len(toks) : toks[i].type = "NAME"
                            THEN "NEWLINE" ELSE "NL",
                   string |-> "\n", start |-> row]>>

RECURSIVE LexLines(_, _)
LexLines(physical, row) ==
    IF row > Len(physical) THEN <<>>
    ELSE LexLine(physical[row], row) \o LexLines(physical, row + 1)

tokenize(text) ==
    <<[type |-> "ENCODING", string |-> "utf-8", start |-> 0]>>
        \o LexLines(splitlines(text), 1)
        \o <<[type |-> "ENDMARKER", string |-> "", start |-> Len(splitlines(text)) + 1]>>

IsDef(tok) == tok.type = "NAME" /\ tok.string = "def"

func_defs(text) == SelectSeq(tokenize(text), IsDef)

-----------------------------------------------------------------------------
(* analyze_style: the raw measures *)

IsNonBlank(line) == strip(line) # <<>>

non_blank_lines(ls) == SelectSeq(ls, IsNonBlank)

StrippedLengths(ls) ==
    LET nb == non_blank_lines(ls) IN [i \in 1..Len(nb) |-> Len(strip(nb[i]))]

avg_line_length(ls) ==
    LET n_non_blank == Len(non_blank_lines(ls))
    IN  IF n_non_blank > 0
        THEN Div(Num(SumSeq(StrippedLengths(ls))), Num(n_non_blank))
        ELSE Num(0)

comment_percentage(cls, ls) ==
    IF Len(ls) > 0
    THEN Mul(Div(Num(Cardinality(cls)), Num(Len(ls))), Num(100))
    ELSE Num(0)

IsIndented(line) == startswith(line, " ") \/ startswith(line, "\t")

(* The indented lines taken from all the lines, the blank ones included *)
indented_lines_of_all_lines(ls) == SelectSeq(ls, IsIndented)

indented_lines(ls) == SelectSeq(non_blank_lines(ls), IsIndented)

indent_percentage(ls) ==
    LET n_non_blank == Len(non_blank_lines(ls))
    IN  IF n_non_blank > 0
        THEN Mul(Div(Num(Len(indented_lines(ls))), Num(n_non_blank)), Num(100))
        ELSE Num(0)

IsBlank(line) == strip(line) = <<>>

blank_lines(ls) == SelectSeq(ls, IsBlank)

blank_percentage(ls) ==
    IF Len(ls) > 0
    THEN Mul(Div(Num(Len(blank_lines(ls))), Num(Len(ls))), Num(100))
    ELSE Num(0)

total_embedded_spaces(ls) ==
    LET nb == non_blank_lines(ls)
    IN  SumSeq([i \in 1..Len(nb) |-> count(strip(nb[i]), " ")])

total_chars(ls) == SumSeq(StrippedLengths(ls))

embedded_space_percentage(ls) ==
    LET chars == total_chars(ls)
    IN  IF chars > 0
        THEN Mul(Div(Num(total_embedded_spaces(ls)), Num(chars)), Num(100))
        ELSE Num(0)

modules(nf) == nf + 1

(* The module length divided by the number of functions alone *)
module_length_without_top_level(ls, nf) ==
    Div(Num(Len(non_blank_lines(ls))), Num(nf))

module_length(ls, nf) ==
    IF modules(nf) > 0
    THEN Div(Num(Len(non_blank_lines(ls))), Num(modules(nf)))
    ELSE Num(Len(non_blank_lines(ls)))

(* keyword.kwlist *)
reserved_words_set ==
    {"False", "None", "True", "and", "as", "assert", "async", "await", "break",
     "class", "continue", "def", "del", "elif", "else", "except", "finally",
     "for", "from", "global", "if", "import", "in", "is", "lambda", "nonlocal",
     "not", "or", "pass", "raise", "return", "try", "while", "with", "yield"}

used_reserved_words(toks) ==
    {toks[i].string : i \in {j \in 1..Len(toks) :
        toks[j].type = "NAME" /\ toks[j].string \in reserved_words_set}}

reserved_words_count(toks) == Cardinality(used_reserved_words(toks))

IsIdentifier(tok) == tok.type = "NAME" /\ tok.string \notin reserved_words_set

identifiers(toks) == SelectSeq(toks, IsIdentifier)

avg_identifier_length(toks) ==
    LET ids == identifiers(toks)
    IN  IF ids # <<>>
        THEN Div(Num(SumSeq([i \in 1..Len(ids) |-> Len(ids[i].string)])), Num(Len(ids)))
        ELSE Num(0)

raw_measures(ls, cls, toks, nf) ==
    [avg_line_length |-> avg_line_length(ls),
     comment_percentage |-> comment_percentage(cls, ls),
     indent_percentage |-> indent_percentage(ls),
     blank_percentage |-> blank_percentage(ls),
     embedded_space_percentage |-> embedded_space_percentage(ls),
     module_length |-> module_length(ls, nf),
     reserved_words_count |-> Num(reserved_words_count(toks)),
     avg_identifier_length |-> avg_identifier_length(toks)]

marks(raw) ==
    [avg_line_length |-> conversion(raw.avg_line_length, p1).mark,
     comment_percentage |-> conversion(raw.comment_percentage, p2).mark,
     indent_percentage |-> conversion(raw.indent_percentage, p3).mark,
     blank_percentage |-> conversion(raw.blank_percentage, p4).mark,
     embedded_space_percentage |-> conversion(raw.embedded_space_percentage, p5).mark,
     module_length |-> conversion(raw.module_length, p6).mark,
     reserved_words_count |-> conversion(raw.reserved_words_count, p7).mark,
     avg_identifier_length |-> conversion(raw.avg_identifier_length, p8).mark]

Floor(r) == IF IsNumber(r) THEN Num(r[1] \div r[2]) ELSE r

(* The total summed from marks rounded down to whole numbers *)
total_mark_of_rounded_marks(m) ==
    Add(Add(Add(Add(Add(Add(Add(Floor(m.avg_line_length), Floor(m.comment_percentage)),
        Floor(m.indent_percentage)), Floor(m.blank_percentage)),
        Floor(m.embedded_space_percentage)), Floor(m.module_length)),
        Floor(m.reserved_words_count)), Floor(m.avg_identifier_length))

total_mark(m) ==
    Add(Add(Add(Add(Add(Add(Add(m.avg_line_length, m.comment_percentage),
        m.indent_percentage), m.blank_percentage), m.embedded_space_percentage),
        m.module_length), m.reserved_words_count), m.avg_identifier_length)

breakdown(raw) ==
    LET m == marks(raw)
    IN  [raw_measures |-> raw, marks |-> m, total_mark |-> total_mark(m)]

(* An exception raised while a measure or a mark is evaluated leaves analyze_style *)
Raises(raw) ==
    \/ \E k \in DOMAIN raw : ~IsNumber(raw[k])
    \/ LET m == marks(raw) IN \E k \in DOMAIN m : ~IsNumber(m[k])

-----------------------------------------------------------------------------
(* The inputs the model draws from *)

Word(n) == [i \in 1..n |-> "x"]

LongLine ==
    <<" ", " ", " ", " ">> \o Word(9) \o <<" ">> \o Word(9) \o <<" ">> \o Word(9)
        \o <<" ">> \o Word(9) \o <<" ">> \o Word(9)

SourceLines ==
    { <<>>,
      <<" ", " ">>,
      <<"d", "e", "f", " ", "x">>,
      <<"\t", "i", "f", " ", "x", " ", "#", " ", "x", " ">>,
      LongLine }

RECURSIVE Join(_, _)
Join(ls, final_newline) ==
    IF ls = <<>> THEN <<>>
    ELSE IF Len(ls) = 1 THEN Head(ls) \o (IF final_newline THEN <<"\n">> ELSE <<>>)
    ELSE Head(ls) \o <<"\n">> \o Join(Tail(ls), final_newline)

SourceTexts ==
    {Join(ls, nl) : ls \in UNION {[1..n -> SourceLines] : n \in 0..MaxLines},
                    nl \in BOOLEAN}

Files ==
    {[kind |-> "missing", content |-> <<>>], [kind |-> "undecodable", content |-> <<>>]}
        \cup {[kind |-> "text", content |-> text] : text \in SourceTexts}

GenericParams ==
    {<<m, a, b, c, d>> : m \in 0..MaxMark, a \in 0..MaxBreak, b \in 0..MaxBreak,
                         c \in 0..MaxBreak, d \in 0..MaxBreak}

TableParams == {ParamTable[i] : i \in 1..Len(ParamTable)}

Values(params) ==
    {Rat(k, ValueDen) : k \in (0 - ValueDen)..((hi(params) + 1) * ValueDen)}

NoResult == [raw_measures |-> <<>>, marks |-> <<>>, total_mark |-> Num(0)]

NoOutput == [branch |-> "none", mark |-> Num(0)]

NoGenerator == [started |-> FALSE, yielded |-> <<>>, rest |-> <<>>]

-----------------------------------------------------------------------------
(* Initial states: the script is started, or conversion is called directly *)

Idle ==
    /\ code = <<>>
    /\ lines = <<>>
    /\ gen = NoGenerator
    /\ tokens = <<>>
    /\ comment_lines = {}
    /\ tokenize_raised = FALSE
    /\ num_funcs = 0
    /\ parse_raised = FALSE
    /\ outcome = "none"
    /\ result = NoResult
    /\ stdout = <<>>
    /\ exit_status = -1
    /\ conv_out = NoOutput

InitScript ==
    /\ pc = "main"
    /\ \/ argv = <<"pyrees.py">> /\ fs = [kind |-> "missing", content |-> <<>>]
       \/ argv = <<"pyrees.py", "file.py">> /\ fs \in Files
    /\ conv_value = Num(0)
    /\ conv_params = p1
    /\ Idle

InitConversion ==
    /\ pc = "conversion"
    /\ argv = <<>>
    /\ fs = [kind |-> "missing", content |-> <<>>]
    /\ conv_params \in GenericParams \cup TableParams
    /\ conv_value \in Values(conv_params)
    /\ Idle

Init == InitScript \/ InitConversion

-----------------------------------------------------------------------------
(* conversion called on its own *)

CallConversion ==
    /\ pc = "conversion"
    /\ conv_out' = conversion(conv_value, conv_params)
    /\ pc' = "conversion_returned"
    /\ UNCHANGED <<argv, fs, code, lines, gen, tokens, comment_lines, tokenize_raised,
                   num_funcs, parse_raised, outcome, result, stdout, exit_status,
                   conv_value, conv_params>>

-----------------------------------------------------------------------------
(* The script, lines 184-202 *)

Usage ==
    /\ pc = "main"
    /\ Len(argv) < 2
    /\ stdout' = Append(stdout, "usage")
    /\ pc' = "exit"
    /\ exit_status' = 0
    /\ UNCHANGED <<argv, fs, code, lines, gen, tokens, comment_lines, tokenize_raised,
                   num_funcs, parse_raised, outcome, result,
                   conv_value, conv_params, conv_out>>

ReadRaises ==
    /\ pc = "main"
    /\ Len(argv) >= 2
    /\ fs.kind # "text"
    /\ stdout' = Append(stdout, "error")
    /\ pc' = "exit"
    /\ exit_status' = 0
    /\ UNCHANGED <<argv, fs, code, lines, gen, tokens, comment_lines, tokenize_raised,
                   num_funcs, parse_raised, outcome, result,
                   conv_value, conv_params, conv_out>>

ReadFile ==
    /\ pc = "main"
    /\ Len(argv) >= 2
    /\ fs.kind = "text"
    /\ code' = fs.content
    /\ pc' = "analyze_style"
    /\ UNCHANGED <<argv, fs, lines, gen, tokens, comment_lines, tokenize_raised,
                   num_funcs, parse_raised, outcome, result, stdout, exit_status,
                   conv_value, conv_params, conv_out>>

PrintResult ==
    /\ pc = "after_call"
    /\ stdout' = Append(stdout, IF outcome = "returned" THEN "report" ELSE "error")
    /\ pc' = "exit"
    /\ exit_status' = 0
    /\ UNCHANGED <<argv, fs, code, lines, gen, tokens, comment_lines, tokenize_raised,
                   num_funcs, parse_raised, outcome, result,
                   conv_value, conv_params, conv_out>>

-----------------------------------------------------------------------------
(* analyze_style *)

(* lines 60-74: the lines are split and the tokenizer is created *)
SplitLines ==
    /\ pc = "analyze_style"
    /\ lines' = splitlines(code)
    /\ gen' = [started |-> TRUE, yielded |-> <<>>, rest |-> tokenize(code)]
    /\ pc' = "tokenize"
    /\ UNCHANGED <<argv, fs, code, tokens, comment_lines, tokenize_raised,
                   num_funcs, parse_raised, outcome, result, stdout, exit_status,
                   conv_value, conv_params, conv_out>>

(* line 74: list() takes one more token from the generator *)
TokenizeYield ==
    /\ pc = "tokenize"
    /\ gen.rest # <<>>
    /\ gen' = [gen EXCEPT !.yielded = Append(@, Head(gen.rest)), !.rest = Tail(@)]
    /\ UNCHANGED <<pc, argv, fs, code, lines, tokens, comment_lines, tokenize_raised,
                   num_funcs, parse_raised, outcome, result, stdout, exit_status,
                   conv_value, conv_params, conv_out>>

(* The tokens collected before the exception kept *)
tokens_after_exception_kept(yielded) == yielded

tokens_after_exception(yielded) == <<>>

(* lines 79-80: the encoding or the generator raises; the except clause runs *)
TokenizeRaises ==
    /\ pc = "tokenize"
    /\ tokens' = tokens_after_exception(gen.yielded)
    /\ tokenize_raised' = TRUE
    /\ gen' = NoGenerator
    /\ pc' = "parse"
    /\ UNCHANGED <<argv, fs, code, lines, comment_lines,
                   num_funcs, parse_raised, outcome, result, stdout, exit_status,
                   conv_value, conv_params, conv_out>>

collect_comment_lines(toks) ==
    {toks[i].start : i \in {j \in 1..Len(toks) : toks[j].type = "COMMENT"}}

(* lines 74-78: the generator is exhausted, list() returns, the loop runs *)
TokenizeDone ==
    /\ pc = "tokenize"
    /\ gen.rest = <<>>
    /\ tokens' = gen.yielded
    /\ comment_lines' = collect_comment_lines(gen.yielded)
    /\ gen' = NoGenerator
    /\ pc' = "parse"
    /\ UNCHANGED <<argv, fs, code, lines, tokenize_raised,
                   num_funcs, parse_raised, outcome, result, stdout, exit_status,
                   conv_value, conv_params, conv_out>>

(* lines 101-104: ast.parse returns a tree with nf function definitions *)
ParseReturns ==
    /\ pc = "parse"
    /\ num_funcs' = Len(func_defs(code))
    /\ pc' = "score"
    /\ UNCHANGED <<argv, fs, code, lines, gen, tokens, comment_lines, tokenize_raised,
                   parse_raised, outcome, result, stdout, exit_status,
                   conv_value, conv_params, conv_out>>

num_funcs_after_exception == 0

(* lines 105-106: ast.parse raises; the except clause runs *)
ParseRaises ==
    /\ pc = "parse"
    /\ num_funcs' = num_funcs_after_exception
    /\ parse_raised' = TRUE
    /\ pc' = "score"
    /\ UNCHANGED <<argv, fs, code, lines, gen, tokens, comment_lines, tokenize_raised,
                   outcome, result, stdout, exit_status,
                   conv_value, conv_params, conv_out>>

(* lines 60-69, 82-97, 107-181: the measures, the marks, the total, the return *)
Score ==
    /\ pc = "score"
    /\ LET raw == raw_measures(lines, comment_lines, tokens, num_funcs)
       IN  IF Raises(raw)
           THEN outcome' = "raised" /\ result' = NoResult
           ELSE outcome' = "returned" /\ result' = breakdown(raw)
    /\ pc' = "after_call"
    /\ UNCHANGED <<argv, fs, code, lines, gen, tokens, comment_lines, tokenize_raised,
                   num_funcs, parse_raised, stdout, exit_status,
                   conv_value, conv_params, conv_out>>

-----------------------------------------------------------------------------

Next ==
    \/ CallConversion
    \/ Usage
    \/ ReadRaises
    \/ ReadFile
    \/ SplitLines
    \/ TokenizeYield
    \/ TokenizeRaises
    \/ TokenizeDone
    \/ ParseReturns
    \/ ParseRaises
    \/ Score
    \/ PrintResult

Spec == Init /\ [][Next]_vars

-----------------------------------------------------------------------------
(* Properties *)

ValidParams(params) ==
    /\ max_mark(params) >= 0
    /\ lo(params) <= lotol(params)
    /\ lotol(params) <= hitol(params)
    /\ hitol(params) <= hi(params)

Within(mark, top) == IsNumber(mark) /\ Le(Num(0), mark) /\ Le(mark, Num(top))

Strictly(mark, top) == IsNumber(mark) /\ Lt(Num(0), mark) /\ Lt(mark, Num(top))

Names == {MeasureNames[i] : i \in 1..Len(MeasureNames)}

ConversionReturned == pc = "conversion_returned"

(* C1: every mark analyze_style returns lies in [0, max_mark] of its own
   measure's parameter tuple, and for every value and every valid parameter
   tuple conversion returns a value in [0, max_mark]. *)
C1_MarksWithinRange ==
    /\ outcome = "returned" =>
          \A i \in 1..Len(MeasureNames) :
              Within(result.marks[MeasureNames[i]], max_mark(ParamTable[i]))
    /\ (ConversionReturned /\ ValidParams(conv_params)) =>
          Within(conv_out.mark, max_mark(conv_params))

(* C1 witness: an analysis that returned a mark on a ramp, strictly between 0
   and its maximum, and another mark at its maximum. *)
C1_Witness ==
    /\ outcome = "returned"
    /\ Strictly(result.marks.avg_line_length, max_mark(p1))
    /\ result.marks.embedded_space_percentage = Num(max_mark(p5))

RECURSIVE SumOfMarks(_, _)
SumOfMarks(m, n) ==
    IF n = 0 THEN Num(0) ELSE Add(SumOfMarks(m, n - 1), m[MeasureNames[n]])

SumOfMaxMarks == SumSeq([i \in 1..Len(ParamTable) |-> max_mark(ParamTable[i])])

C3_PlateauIsMaxMark ==
    (/\ ConversionReturned
     /\ ValidParams(conv_params)
     /\ Le(Num(lotol(conv_params)), conv_value)
     /\ Le(conv_value, Num(hitol(conv_params))))
        => conv_out.mark = Num(max_mark(conv_params))

(* C3 witness: a call at value = lotol = lo of a degenerate tuple with a
   positive max_mark. *)
C3_Witness ==
    /\ ConversionReturned
    /\ ValidParams(conv_params)
    /\ max_mark(conv_params) > 0
    /\ lo(conv_params) = lotol(conv_params)
    /\ lotol(conv_params) < hitol(conv_params)
    /\ conv_value = Num(lotol(conv_params))
    /\ conv_out.mark = Num(max_mark(conv_params))

(* C4: for valid parameters and a value strictly below lo or strictly above
   hi, conversion returns 0. *)
C4_OutsideIsZero ==
    (/\ ConversionReturned
     /\ ValidParams(conv_params)
     /\ \/ Lt(conv_value, Num(lo(conv_params)))
        \/ Lt(Num(hi(conv_params)), conv_value))
        => conv_out.mark = Num(0)

(* C4 witness: a call just above hi of a tuple with a positive max_mark and a
   falling ramp. *)
C4_Witness ==
    /\ ConversionReturned
    /\ ValidParams(conv_params)
    /\ max_mark(conv_params) > 0
    /\ hitol(conv_params) < hi(conv_params)
    /\ conv_value = Add(Num(hi(conv_params)), Rat(1, ValueDen))
    /\ conv_out.mark = Num(0)

AtBreakpoints(params, value, out) ==
    /\ value = Num(lo(params)) => out.mark = Num(0)
    /\ value = Num(lotol(params)) => out.mark = Num(max_mark(params))
    /\ value = Num(hitol(params)) => out.mark = Num(max_mark(params))
    /\ value = Num(hi(params)) => out.mark = Num(0)

(* C5 as claimed: for any valid parameters, the value returned at each of
   the four breakpoints agrees with the limit of the regions on both of its
   sides: 0 at lo and hi (the zero regions), max_mark at lotol and hitol (the
   plateau). *)
C5_NoJumpForAnyValidParams ==
    (ConversionReturned /\ ValidParams(conv_params))
        => AtBreakpoints(conv_params, conv_value, conv_out)

Distance(a, b) == IF Le(a, b) THEN Sub(b, a) ELSE Sub(a, b)

Step == Rat(1, ValueDen)

(* C5 as amended: where a ramp exists there is no jump at its two ends.  If
   lo < lotol, the rising-ramp formula gives 0 at lo and max_mark at lotol,
   conversion returns those values there, and up to hitol two values one step
   apart get marks no further apart than the ramp's slope times the step; if
   hitol < hi, the same holds of the falling ramp at hitol and hi and from
   hitol on. *)
C5_NoJumpWhereRampsExist ==
    (ConversionReturned /\ ValidParams(conv_params)) =>
        LET p == conv_params
            v == conv_value
            next == conversion(Add(v, Step), p)
        IN  /\ lo(p) < lotol(p) =>
                /\ RisingRamp(Num(lo(p)), p) = Num(0)
                /\ RisingRamp(Num(lotol(p)), p) = Num(max_mark(p))
                /\ v = Num(lo(p)) => conv_out.mark = Num(0)
                /\ v = Num(lotol(p)) => conv_out.mark = Num(max_mark(p))
                /\ Le(Add(v, Step), Num(hitol(p))) =>
                      Le(Distance(conv_out.mark, next.mark),
                         Div(Mul(Num(max_mark(p)), Step), Num(lotol(p) - lo(p))))
            /\ hitol(p) < hi(p) =>
                /\ FallingRamp(Num(hitol(p)), p) = Num(max_mark(p))
                /\ FallingRamp(Num(hi(p)), p) = Num(0)
                /\ v = Num(hitol(p)) => conv_out.mark = Num(max_mark(p))
                /\ v = Num(hi(p)) => conv_out.mark = Num(0)
                /\ Le(Num(hitol(p)), v) =>
                      Le(Distance(conv_out.mark, next.mark),
                         Div(Mul(Num(max_mark(p)), Step), Num(hi(p) - hitol(p))))

(* C5 witness: a call at hitol of a tuple with both ramps and a positive
   max_mark, one step before a value on the falling ramp. *)
C5_Witness ==
    /\ ConversionReturned
    /\ ValidParams(conv_params)
    /\ max_mark(conv_params) > 0
    /\ lo(conv_params) < lotol(conv_params)
    /\ hitol(conv_params) < hi(conv_params)
    /\ conv_value = Num(hitol(conv_params))
    /\ conversion(Add(conv_value, Step), conv_params).branch = "falling"

LineMeasuresOf(text) ==
    LET ls == splitlines(text)
    IN  [avg_line_length |-> avg_line_length(ls),
         indent_percentage |-> indent_percentage(ls),
         blank_percentage |-> blank_percentage(ls),
         embedded_space_percentage |-> embedded_space_percentage(ls)]

(* C6: if tokenization fails at any point the token stream is empty: no
   token and no comment line survives, comment_percentage,
   reserved_words_count and avg_identifier_length are 0, and the four
   line-based measures have the values the lines alone give them. *)
C6_TokenizeFailureGivesEmptyStream ==
    /\ tokenize_raised => tokens = <<>> /\ comment_lines = {}
    /\ (tokenize_raised /\ outcome = "returned") =>
          /\ result.raw_measures.comment_percentage = Num(0)
          /\ result.raw_measures.reserved_words_count = Num(0)
          /\ result.raw_measures.avg_identifier_length = Num(0)
    /\ outcome = "returned" =>
          LET alone == LineMeasuresOf(code)
          IN  \A k \in DOMAIN alone : result.raw_measures[k] = alone[k]

(* C6 witness: an analysis that returned after tokenization failed on a text
   that holds a comment, a reserved word and an identifier. *)
C6_Witness ==
    /\ tokenize_raised
    /\ outcome = "returned"
    /\ collect_comment_lines(tokenize(code)) # {}
    /\ reserved_words_count(tokenize(code)) > 0
    /\ identifiers(tokenize(code)) # <<>>
    /\ result.raw_measures.avg_line_length # Num(0)

CallEnded == pc \in {"after_call", "exit"} /\ Len(argv) >= 2 /\ fs.kind = "text"

(* C7: whatever tokenization and parsing do, analyze_style raises nothing
   and returns all eight raw measures and all eight marks; when parsing fails
   the function count is 0 and module_length is the number of non-blank
   lines, otherwise module_length is that number / (function count + 1). *)
C7_ExtractionIsTotal ==
    CallEnded =>
        /\ outcome = "returned"
        /\ DOMAIN result.raw_measures = Names
        /\ DOMAIN result.marks = Names
        /\ parse_raised =>
              /\ num_funcs = 0
              /\ result.raw_measures.module_length = Num(Len(non_blank_lines(lines)))
        /\ ~parse_raised =>
              /\ num_funcs = Len(func_defs(code))
              /\ result.raw_measures.module_length =
                    Rat(Len(non_blank_lines(lines)), num_funcs + 1)

(* C7 witness: an analysis that returned after both tokenization and parsing
   failed, on a text with non-blank lines and a function definition. *)
C7_Witness ==
    /\ CallEnded
    /\ tokenize_raised
    /\ parse_raised
    /\ outcome = "returned"
    /\ func_defs(code) # <<>>
    /\ Len(non_blank_lines(lines)) > 1

Percentages ==
    {"comment_percentage", "indent_percentage", "blank_percentage",
     "embedded_space_percentage"}

(* C8: no raw measure is negative, the four percentages lie in [0, 100], and
   no division by zero happens, whatever the text. *)
C8_RawMeasuresInRange ==
    CallEnded =>
        /\ outcome = "returned"
        /\ \A k \in Names :
              IsNumber(result.raw_measures[k]) /\ Le(Num(0), result.raw_measures[k])
        /\ \A k \in Percentages : Le(result.raw_measures[k], Num(100))

(* C8 witness: an analysis of a text of blank lines only, one of them made
   of spaces. *)
C8_Witness ==
    /\ CallEnded
    /\ outcome = "returned"
    /\ Len(lines) > 1
    /\ non_blank_lines(lines) = <<>>
    /\ \E i \in 1..Len(lines) : lines[i] # <<>>
    /\ result.raw_measures.blank_percentage = Num(100)

(* C9: when reading the file fails the script prints a message and ends
   with a non-zero exit status; without an argument it prints the usage
   message and ends without calling the analysis. *)
C9_ScriptExitStatus ==
    pc = "exit" =>
        /\ (Len(argv) >= 2 /\ fs.kind # "text") =>
              stdout = <<"error">> /\ exit_status # 0
        /\ Len(argv) < 2 => stdout = <<"usage">> /\ outcome = "none"

(* C10: for every value and all valid parameters, the degenerate ones
   included, conversion divides by no zero, does not reach its final else
   branch, enters the rising ramp only when lo < lotol and the falling ramp
   only when hitol < hi, and returns a number. *)
C10_NoZeroDenominatorNoFallback ==
    (ConversionReturned /\ ValidParams(conv_params)) =>
        /\ conv_out.branch # "fallback"
        /\ IsNumber(conv_out.mark)
        /\ conv_out.branch = "rising" => lotol(conv_params) - lo(conv_params) # 0
        /\ conv_out.branch = "falling" => hi(conv_params) - hitol(conv_params) # 0

(* C10 witness: a call at the single point of a tuple with
   lo = lotol = hitol = hi. *)
C10_Witness ==
    /\ ConversionReturned
    /\ ValidParams(conv_params)
    /\ max_mark(conv_params) > 0
    /\ lo(conv_params) = hi(conv_params)
    /\ conv_value = Num(lo(conv_params))
    /\ conv_out.branch = "plateau"

====
